---- MODULE Spec2Model ----
(***************************************************************************)
(* Trainfuck interpreter (src/src/interpreter.rs, src/src/main.rs):        *)
(* the parser (source text -> operation tree) and the virtual machine      *)
(* (tape, pointer, listener slot, connection slot, standard streams).      *)
(*                                                                         *)
(* Conventions.                                                            *)
(*  - A source text is a sequence of one-character strings; index i of the *)
(*    code (0-based) is element i+1 of the sequence.                       *)
(*  - An operation is a record [op, n, body]; n is 0 and body is <<>> for  *)
(*    the variants of Op that carry no such payload.                       *)
(*  - The tape (vec![0u8; TAPE_SIZE]) is kept as the function from the     *)
(*    indices of its nonzero cells to their values; Cell reads it.         *)
(*  - A usize that wrapped below zero is kept as its two's complement      *)
(*    representative (2^64 - k is written -k); move_right and move_left    *)
(*    compare and reduce such a value as the 64-bit number it stands for.  *)
(*    Run counts are far below 2^63.                                       *)
(***************************************************************************)
EXTENDS Integers, Sequences, FiniteSets, TLC

VARIABLES
    source,           \* main: the text read from the file
    input,            \* the bytes standard input holds, in order
    in_pos,           \* how many of them VM.input has handed out
    peer_data,        \* the bytes the remote peer will write, in order
    overflow_checks,  \* build profile: TRUE = debug (overflow panics)
    pc,               \* main's position
    result,           \* what parse returned
    stack,            \* the active calls of VM::execute, innermost last
    tape,             \* VM.tape
    pointer,          \* VM.pointer
    listener,         \* VM.listener
    connection,       \* VM.connection
    output,           \* the bytes written to standard output
    error,            \* the error execute returned
    peer,             \* the remote end of the VM's connection: idle, open, closed,
                      \* or own (it waits at the VM's own listener)
    backlog,          \* the sockets waiting at the listener, oldest first
    peer_sent,        \* how many bytes of peer_data the peer has written
    net_rx,           \* bytes in flight from the peer to the VM
    net_tx,           \* bytes the VM has delivered to the peer
    peer_conns,       \* how many peers have connected to the listener
    netcall           \* the socket call the last step made, or None

vars == <<source, input, in_pos, peer_data, overflow_checks, pc, result, stack,
          tape, pointer, listener, connection, output, error, peer, backlog,
          peer_sent, net_rx, net_tx, peer_conns, netcall>>

TAPE_SIZE == 30000

\* bounds of the model
MaxSrcLen == 2        \* every text up to this length is run
MaxParseLen == 5      \* every bracket text up to this length is parsed
MaxRun == 257         \* longest run of one character that is parsed
MaxInput == 2         \* longest standard input of the short programs
MaxOut == 3           \* bytes a run may write to one stream
MaxPeerConns == 2     \* peers that connect to the listener
MaxBacklog == 1       \* remote peers waiting at the listener at once
MaxCount == 3         \* small run counts of the single movement operations
MaxClassicLen == 3    \* every classic text up to this length is run
RefFuel == 70000      \* steps the reference interpreter is followed for

None == "None"

\* Option<T>: the empty sequence, or the one-element sequence of the value
Absent == <<>>
Some(x) == <<x>>

\* ------------------------------------------------------------------ Op

\* the characters of Receive and Send; a TLA+ string cannot hold a lone
\* backtick, so the backtick character is written "backtick"
Backtick == "backtick"
Quote == "'"

Op0(name) == [op |-> name, n |-> 0, body |-> <<>>]
OpN(name, k) == [op |-> name, n |-> k, body |-> <<>>]
OpLoop(b) == [op |-> "Loop", n |-> 0, body |-> b]

\* Result<Vec<Op>> and Result<(Vec<Op>, usize)>
Ok(o) == [ok |-> TRUE, ops |-> o, err |-> None, pos |-> 0]
OkAt(o, e) == [ok |-> TRUE, ops |-> o, err |-> None, pos |-> e]
Err(kind, p) == [ok |-> FALSE, ops |-> <<>>, err |-> kind, pos |-> p]

\* ------------------------------------------------------------------ parser

RECURSIVE parse(_)
RECURSIVE parse_while(_, _, _)
RECURSIVE parse_loop_scan(_, _, _)

\* mutant: counts every later occurrence of target (filter for take_while)
count_consecutive_all(chars, start, target) ==
    Cardinality({k \in start..(Len(chars) - 1) : chars[k + 1] = target})

\* mutant: the run is counted from the character after start
count_consecutive_after(chars, start, target) ==
    LET from == start + 1
        ends == {k \in from..Len(chars) : k = Len(chars) \/ chars[k + 1] # target}
        stop == CHOOSE k \in ends : \A m \in ends : k <= m
    IN  stop - from

\* chars[start..].iter().take_while(|c| c == target).count()
\* (the first index from start on that ends the run, minus start)
count_consecutive(chars, start, target) ==
    LET ends == {k \in start..Len(chars) : k = Len(chars) \/ chars[k + 1] # target}
        stop == CHOOSE k \in ends : \A m \in ends : k <= m
    IN  stop - start

\* mutant: the scan does not count nested '[': the first ']' closes the loop
RECURSIVE parse_loop_scan_flat(_, _, _)
parse_loop_scan_flat(chars, i, depth) ==
    IF i < Len(chars) /\ depth > 0
    THEN LET d == IF chars[i + 1] = "]" THEN depth - 1 ELSE depth
         IN  parse_loop_scan_flat(chars, IF d > 0 THEN i + 1 ELSE i, d)
    ELSE [i |-> i, depth |-> depth]

\* the while loop of parse_loop: the (i, depth) it ends with
parse_loop_scan(chars, i, depth) ==
    IF i < Len(chars) /\ depth > 0
    THEN LET d == CASE chars[i + 1] = "[" -> depth + 1
                    [] chars[i + 1] = "]" -> depth - 1
                    [] OTHER -> depth
         IN  parse_loop_scan(chars, IF d > 0 THEN i + 1 ELSE i, d)
    ELSE [i |-> i, depth |-> depth]

\* mutant: the body is parsed without its last character
parse_loop_short_body(chars, start) ==
    LET s == parse_loop_scan(chars, start + 1, 1)
    IN  IF s.depth # 0
        THEN Err("UnmatchedOpenBracket", start)
        ELSE LET body == IF s.i > start + 1
                         THEN SubSeq(chars, start + 2, s.i - 1) ELSE <<>>
                 inner == parse(body)
             IN  IF inner.ok THEN OkAt(inner.ops, s.i) ELSE inner

parse_loop(chars, start) ==
    LET s == parse_loop_scan(chars, start + 1, 1)
    IN  IF s.depth # 0
        THEN Err("UnmatchedOpenBracket", start)
        ELSE LET inner == parse(SubSeq(chars, start + 2, s.i))
             IN  IF inner.ok THEN OkAt(inner.ops, s.i) ELSE inner

\* the while loop of parse, from index i with ops collected so far
parse_while(chars, i, ops) ==
    IF i >= Len(chars) THEN Ok(ops)
    ELSE LET c == chars[i + 1]
             count == count_consecutive(chars, i, c)
         IN  CASE c = ">" -> parse_while(chars, i + count, Append(ops, OpN("MoveRight", count)))
               [] c = "<" -> parse_while(chars, i + count, Append(ops, OpN("MoveLeft", count)))
               [] c = "+" -> parse_while(chars, i + count, Append(ops, OpN("Increment", count % 256)))
               [] c = "-" -> parse_while(chars, i + count, Append(ops, OpN("Decrement", count % 256)))
               [] c = "." -> parse_while(chars, i + 1, Append(ops, Op0("Output")))
               [] c = "," -> parse_while(chars, i + 1, Append(ops, Op0("Input")))
               [] c = "[" -> LET l == parse_loop(chars, i)
                             IN  IF l.ok
                                 THEN parse_while(chars, l.pos + 1, Append(ops, OpLoop(l.ops)))
                                 ELSE l
               [] c = "]" -> Err("UnmatchedCloseBracket", i)
               [] c = "%" -> parse_while(chars, i + 1, Append(ops, Op0("Connect")))
               [] c = "$" -> parse_while(chars, i + 1, Append(ops, Op0("Listen")))
               [] c = "@" -> parse_while(chars, i + 1, Append(ops, Op0("Accept")))
               [] c = Backtick -> parse_while(chars, i + 1, Append(ops, Op0("Receive")))
               [] c = Quote -> parse_while(chars, i + 1, Append(ops, Op0("Send")))
               [] OTHER -> parse_while(chars, i + 1, ops)

\* mutant: the scan starts at the second character
parse_from_second(src) == parse_while(src, 1, <<>>)

parse(src) == parse_while(src, 0, <<>>)

\* ------------------------------------------------------------------ VM helpers

Bytes == 0..255

\* tape[p]
Cell(t, p) == IF p \in DOMAIN t THEN t[p] ELSE 0

\* tape[p] = v
SetCell(t, p, v) ==
    IF v = 0
    THEN [q \in DOMAIN t \ {p} |-> t[q]]
    ELSE [q \in DOMAIN t \cup {p} |-> IF q = p THEN v ELSE t[q]]

\* an index the Vec accepts; any other index panics
InBounds(p) == 0 <= p /\ p < TAPE_SIZE

MulModTape(a, b) == (a * b) % TAPE_SIZE
SquareModTape(a) == MulModTape(a, a)

\* 2^64 mod TAPE_SIZE, by squaring 2 six times
Pow64ModTape == SquareModTape(SquareModTape(SquareModTape(
                    SquareModTape(SquareModTape(SquareModTape(2))))))

\* Op::MoveRight: wrapping_add, then % TAPE_SIZE when not below TAPE_SIZE
move_right(p, n) ==
    LET s == p + n
    IN  IF p < 0 /\ s < 0
        THEN (Pow64ModTape + s) % TAPE_SIZE
        ELSE IF s >= TAPE_SIZE THEN s % TAPE_SIZE ELSE s

\* Op::MoveLeft: [panic, pointer]; TAPE_SIZE - (n - pointer) overflows when
\* n - pointer exceeds TAPE_SIZE: a panic with overflow checks, a wrap without
move_left(p, n, checks) ==
    IF p >= 0 /\ n > p
    THEN IF n - p > TAPE_SIZE /\ checks
         THEN [panic |-> TRUE, pointer |-> p]
         ELSE [panic |-> FALSE, pointer |-> TAPE_SIZE - (n - p)]
    ELSE [panic |-> FALSE, pointer |-> p - n]

\* mutant: the addition saturates at 255
wrapping_add_saturating(c, n) == IF c + n > 255 THEN 255 ELSE c + n

\* mutant: Decrement adds
wrapping_sub_adds(c, n) == (c + n) % 256

\* u8::wrapping_add, u8::wrapping_sub
wrapping_add(c, n) == (c + n) % 256
wrapping_sub(c, n) == (c - n) % 256

\* the six cells read_address_from_tape and read_port_from_tape index
AddressInBounds(p) == InBounds(p) /\ InBounds(p + 5)

\* mutant: the octets are taken in the reverse order
read_address_from_tape_reversed(t, p) ==
    <<Cell(t, p + 3), Cell(t, p + 2), Cell(t, p + 1), Cell(t, p)>>

read_address_from_tape(t, p) ==
    <<Cell(t, p), Cell(t, p + 1), Cell(t, p + 2), Cell(t, p + 3)>>

\* mutant: the port is read little-endian
read_port_from_tape_le(t, p) == Cell(t, p + 5) * 256 + Cell(t, p + 4)

read_port_from_tape(t, p) == Cell(t, p + 4) * 256 + Cell(t, p + 5)

\* mutant: the loop tests the first cell of the tape
loop_cond_first_cell(t, p) == Cell(t, 0) # 0

\* the while condition of Op::Loop
loop_cond(t, p) == Cell(t, p) # 0

\* input.read(&mut buf) on a one-byte buffer that returned Ok: [n, byte], the
\* number of bytes read and buf[0]
input_read(inp, pos) ==
    IF pos < Len(inp) THEN [n |-> 1, byte |-> inp[pos + 1]]
    ELSE [n |-> 0, byte |-> 0]

\* mutant: the end of the stream stores 255
input_cell_eof255(n, byte) == IF n = 0 THEN 255 ELSE byte

\* the value Op::Input stores: Ok(0) => 0, Ok(_) => buf[0]
input_cell(n, byte) == IF n = 0 THEN 0 ELSE byte

\* mutant: an Err inside a loop body is dropped and the loop goes on
raise_in_loop(depth) == IF depth > 1 THEN "exec" ELSE "runtime_error"

\* the ? of execute and of execute_op: an Err leaves every active call of
\* execute, whatever the nesting depth, and reaches main
raise(depth) == "runtime_error"

\* ------------------------------------------------------------------ execute

Top == stack[Len(stack)]
AtOp == pc = "exec" /\ Len(stack) > 0 /\ Top.i < Len(Top.ops)
CurOp == Top.ops[Top.i + 1]
Is(name) == AtOp /\ CurOp.op = name

\* the for loop of execute moves to the next op
Advance(st) == [st EXCEPT ![Len(st)].i = @ + 1]

Frame(o) == [ops |-> o, i |-> 0]

\* what never changes during a run
config == <<source, input, peer_data, overflow_checks>>
netvars == <<peer, backlog, peer_sent, net_rx, net_tx, peer_conns>>

\* main: interpreter::parse(&source)
Parse ==
    /\ pc = "parse"
    /\ LET r == parse(source)
       IN  /\ result' = r
           /\ IF r.ok
              THEN pc' = "exec" /\ stack' = <<Frame(r.ops)>>
              ELSE pc' = "parse_error" /\ stack' = stack
    /\ netcall' = None
    /\ UNCHANGED <<config, in_pos, tape, pointer, listener, connection, output,
                   error, netvars>>

ExecMoveRight ==
    /\ Is("MoveRight")
    /\ pointer' = move_right(pointer, CurOp.n)
    /\ stack' = Advance(stack)
    /\ netcall' = None
    /\ UNCHANGED <<config, in_pos, pc, result, tape, listener, connection,
                   output, error, netvars>>

ExecMoveLeft ==
    /\ Is("MoveLeft")
    /\ LET r == move_left(pointer, CurOp.n, overflow_checks)
       IN  IF r.panic
           THEN pc' = "panic" /\ UNCHANGED <<pointer, stack>>
           ELSE pc' = pc /\ pointer' = r.pointer /\ stack' = Advance(stack)
    /\ netcall' = None
    /\ UNCHANGED <<config, in_pos, result, tape, listener, connection, output,
                   error, netvars>>

ExecIncrement ==
    /\ Is("Increment")
    /\ IF InBounds(pointer)
       THEN /\ tape' = SetCell(tape, pointer, wrapping_add(Cell(tape, pointer), CurOp.n))
            /\ stack' = Advance(stack)
            /\ pc' = pc
       ELSE pc' = "panic" /\ UNCHANGED <<tape, stack>>
    /\ netcall' = None
    /\ UNCHANGED <<config, in_pos, result, pointer, listener, connection,
                   output, error, netvars>>

ExecDecrement ==
    /\ Is("Decrement")
    /\ IF InBounds(pointer)
       THEN /\ tape' = SetCell(tape, pointer, wrapping_sub(Cell(tape, pointer), CurOp.n))
            /\ stack' = Advance(stack)
            /\ pc' = pc
       ELSE pc' = "panic" /\ UNCHANGED <<tape, stack>>
    /\ netcall' = None
    /\ UNCHANGED <<config, in_pos, result, pointer, listener, connection,
                   output, error, netvars>>

\* write_all and flush of one byte: delivered, or an I/O error
ExecOutput ==
    /\ Is("Output")
    /\ Len(output) < MaxOut
    /\ IF InBounds(pointer)
       THEN \E ok \in BOOLEAN :
                IF ok
                THEN /\ output' = Append(output, Cell(tape, pointer))
                     /\ stack' = Advance(stack)
                     /\ UNCHANGED <<pc, error>>
                ELSE /\ pc' = raise(Len(stack))
                     /\ error' = "IoError"
                     /\ UNCHANGED <<output, stack>>
       ELSE pc' = "panic" /\ UNCHANGED <<output, stack, error>>
    /\ netcall' = None
    /\ UNCHANGED <<config, in_pos, result, tape, pointer, listener, connection,
                   netvars>>

\* input.read(&mut buf): Err, Ok(0) at the end of the stream, else Ok(1);
\* the cell is indexed after the read returned
ExecInput ==
    /\ Is("Input")
    /\ \E ok \in BOOLEAN :
           IF ok
           THEN LET r == input_read(input, in_pos)
                    v == input_cell(r.n, r.byte)
                IN  /\ in_pos' = in_pos + r.n
                    /\ error' = error
                    /\ IF InBounds(pointer)
                       THEN /\ tape' = SetCell(tape, pointer, v)
                            /\ stack' = Advance(stack)
                            /\ pc' = pc
                       ELSE pc' = "panic" /\ UNCHANGED <<tape, stack>>
           ELSE /\ pc' = raise(Len(stack))
                /\ error' = "IoError"
                /\ UNCHANGED <<in_pos, tape, stack>>
    /\ netcall' = None
    /\ UNCHANGED <<config, result, pointer, listener, connection, output,
                   netvars>>

\* Op::Loop: one test of the while condition
ExecLoop ==
    /\ Is("Loop")
    /\ IF InBounds(pointer)
       THEN /\ stack' = IF loop_cond(tape, pointer)
                        THEN Append(stack, Frame(CurOp.body))
                        ELSE Advance(stack)
            /\ pc' = pc
       ELSE pc' = "panic" /\ stack' = stack
    /\ netcall' = None
    /\ UNCHANGED <<config, in_pos, result, tape, pointer, listener, connection,
                   output, error, netvars>>

\* execute(inner_ops) returns Ok(()) to the while loop that called it
ExecReturn ==
    /\ pc = "exec"
    /\ Len(stack) > 1
    /\ Top.i = Len(Top.ops)
    /\ stack' = SubSeq(stack, 1, Len(stack) - 1)
    /\ netcall' = None
    /\ UNCHANGED <<config, in_pos, pc, result, tape, pointer, listener,
                   connection, output, error, netvars>>

\* vm.execute(&ops) returns Ok(()) to main
Finish ==
    /\ pc = "exec"
    /\ Len(stack) = 1
    /\ Top.i = Len(Top.ops)
    /\ pc' = "done"
    /\ stack' = <<>>
    /\ netcall' = None
    /\ UNCHANGED <<config, in_pos, result, tape, pointer, listener, connection,
                   output, error, netvars>>

\* mutant: a read error leaves 255 in the cell
receive_cell_err255(r, byte) ==
    CASE r = "byte" -> byte
      [] r = "eof" -> 0
      [] r = "err" -> 255

\* the value net_receive stores: Ok(0) => 0, Ok(_) => buf[0], Err(_) => 0
receive_cell(r, byte) ==
    CASE r = "byte" -> byte
      [] r = "eof" -> 0
      [] r = "err" -> 0

\* the address and port a socket is opened with
Target(t, p) == [addr |-> read_address_from_tape(t, p),
                 port |-> read_port_from_tape(t, p)]

\* what each networking handler does, decided by the slots (and, where the
\* handler indexes the tape, by the pointer)
\* mutant: Listen binds whether or not a listener is present
net_listen_plan_rebinds(lst, p) ==
    IF AddressInBounds(p) THEN "bind" ELSE "panic"

net_listen_plan(lst, p) ==
    IF lst # Absent THEN "close"
    ELSE IF AddressInBounds(p) THEN "bind" ELSE "panic"

\* mutant: the listener is looked at before the connection
net_accept_plan_listener_first(conn, lst) ==
    IF lst # Absent THEN "accept"
    ELSE IF conn # Absent THEN "close" ELSE "noop"

net_accept_plan(conn, lst) ==
    IF conn # Absent THEN "close"
    ELSE IF lst # Absent THEN "accept" ELSE "noop"

\* mutant: the address is read from the tape before the slot is looked at
net_connect_plan_reads_first(conn, p) ==
    IF ~AddressInBounds(p) THEN "panic"
    ELSE IF conn # Absent THEN "close" ELSE "connect"

net_connect_plan(conn, p) ==
    IF conn # Absent THEN "close"
    ELSE IF AddressInBounds(p) THEN "connect" ELSE "panic"

net_receive_plan(conn) == IF conn # Absent THEN "read" ELSE "zero"

\* mutant: Send writes whether or not a connection is present
net_send_plan_always_writes(conn, p) ==
    IF InBounds(p) THEN "write" ELSE "panic"

net_send_plan(conn, p) ==
    IF conn = Absent THEN "noop"
    ELSE IF InBounds(p) THEN "write" ELSE "panic"

\* one socket waiting at the listener: who connected to it (a remote peer,
\* a remote peer that has closed its end since, the VM itself with that
\* connection still in its slot, the VM with that connection dropped since)
\* and the bytes written to it so far
Waiting(from, data) == [from |-> from, data |-> data]

\* the waiting sockets once the VM has dropped its connection
drop_connection(bl) ==
    [k \in 1..Len(bl) |-> IF bl[k].from = "vm"
                          THEN Waiting("vm_closed", bl[k].data) ELSE bl[k]]

\* the waiting sockets once the VM has written byte to its connection
write_connection(bl, byte) ==
    [k \in 1..Len(bl) |-> IF bl[k].from = "vm"
                          THEN Waiting("vm", Append(bl[k].data, byte)) ELSE bl[k]]

\* where a connect to addr arrives: the unspecified address is the local host
Destination(addr) == IF addr = <<0, 0, 0, 0>> THEN <<127, 0, 0, 1>> ELSE addr

\* whether TcpStream::connect(target) arrives at the VM's own listener: it
\* does when the listener is bound to the port and to the destination (or to
\* every address, for a loopback destination); it may when the listener took
\* a port of the system's choice (port 0) or is bound to every address and
\* the destination may be one of the host's; no connect goes to port 0
connect_reaches_listener(target, lst) ==
    IF lst = Absent \/ target.port = 0 THEN {FALSE}
    ELSE LET l == lst[1]
             d == Destination(target.addr)
             every == <<0, 0, 0, 0>>
         IN  IF l.port = 0
             THEN (IF l.addr \in {every, d} THEN BOOLEAN ELSE {FALSE})
             ELSE IF l.port # target.port THEN {FALSE}
             ELSE IF l.addr = d \/ (l.addr = every /\ d[1] = 127) THEN {TRUE}
             ELSE IF l.addr = every THEN BOOLEAN ELSE {FALSE}

\* VM::net_listen; TcpListener::bind succeeds or fails; dropping the listener
\* drops the sockets that wait at it, the far end of the VM's own connection
\* among them
ExecListen ==
    /\ Is("Listen")
    /\ LET plan == net_listen_plan(listener, pointer)
       IN  CASE plan = "close" ->
                    /\ listener' = Absent
                    /\ stack' = Advance(stack)
                    /\ netcall' = None
                    /\ backlog' = <<>>
                    /\ peer' = IF peer = "own" THEN "closed" ELSE peer
                    /\ UNCHANGED <<pc, error>>
             [] plan = "bind" ->
                    /\ netcall' = "bind"
                    /\ UNCHANGED <<backlog, peer>>
                    /\ \E ok \in BOOLEAN :
                           IF ok
                           THEN /\ listener' = Some(Target(tape, pointer))
                                /\ stack' = Advance(stack)
                                /\ UNCHANGED <<pc, error>>
                           ELSE /\ pc' = raise(Len(stack))
                                /\ error' = "NetworkError"
                                /\ UNCHANGED <<listener, stack>>
             [] plan = "panic" ->
                    /\ pc' = "panic"
                    /\ netcall' = None
                    /\ UNCHANGED <<listener, stack, error, backlog, peer>>
    /\ UNCHANGED <<config, in_pos, result, tape, pointer, connection, output,
                   peer_sent, net_rx, net_tx, peer_conns>>

\* VM::net_accept; listener.accept() returns the socket that has waited
\* longest at the listener, once there is one, or fails; the far end of a
\* socket the VM connected itself is a connection the VM has dropped
ExecAccept ==
    /\ Is("Accept")
    /\ LET plan == net_accept_plan(connection, listener)
       IN  CASE plan = "close" ->
                    /\ connection' = Absent
                    /\ stack' = Advance(stack)
                    /\ netcall' = None
                    /\ peer' = "closed"
                    /\ net_rx' = <<>>
                    /\ backlog' = drop_connection(backlog)
                    /\ UNCHANGED <<pc, error, net_tx>>
             [] plan = "accept" ->
                    /\ netcall' = "accept"
                    /\ \E ok \in BOOLEAN :
                           IF ok
                           THEN /\ backlog # <<>>
                                /\ connection' = Some([via |-> "accept",
                                                       addr |-> listener[1].addr,
                                                       port |-> listener[1].port])
                                /\ peer' = IF Head(backlog).from = "peer"
                                           THEN "open" ELSE "closed"
                                /\ backlog' = Tail(backlog)
                                /\ net_rx' = Head(backlog).data
                                /\ net_tx' = <<>>
                                /\ stack' = Advance(stack)
                                /\ UNCHANGED <<pc, error>>
                           ELSE /\ pc' = raise(Len(stack))
                                /\ error' = "NetworkError"
                                /\ UNCHANGED <<connection, stack, peer, backlog, net_rx,
                                               net_tx>>
             [] plan = "noop" ->
                    /\ stack' = Advance(stack)
                    /\ netcall' = None
                    /\ UNCHANGED <<pc, error, connection, peer, backlog, net_rx, net_tx>>
    /\ UNCHANGED <<config, in_pos, result, tape, pointer, listener, output,
                   peer_sent, peer_conns>>

\* VM::net_connect; TcpStream::connect succeeds when something listens at the
\* address, whatever else the VM holds, or fails; a connection to the VM's own
\* listener waits there like any other
ExecConnect ==
    /\ Is("Connect")
    /\ LET plan == net_connect_plan(connection, pointer)
       IN  CASE plan = "close" ->
                    /\ connection' = Absent
                    /\ stack' = Advance(stack)
                    /\ netcall' = None
                    /\ peer' = "closed"
                    /\ net_rx' = <<>>
                    /\ backlog' = drop_connection(backlog)
                    /\ UNCHANGED <<pc, error, net_tx>>
             [] plan = "connect" ->
                    /\ netcall' = "connect"
                    /\ \E ok \in BOOLEAN :
                           IF ok
                           THEN /\ connection' = Some([via |-> "connect",
                                                       addr |-> Target(tape, pointer).addr,
                                                       port |-> Target(tape, pointer).port])
                                /\ \E own \in connect_reaches_listener(
                                                    Target(tape, pointer), listener) :
                                       IF own
                                       THEN /\ peer' = "own"
                                            /\ backlog' = Append(backlog,
                                                                 Waiting("vm", <<>>))
                                       ELSE /\ peer' = "open"
                                            /\ backlog' = backlog
                                /\ net_rx' = <<>>
                                /\ net_tx' = <<>>
                                /\ stack' = Advance(stack)
                                /\ UNCHANGED <<pc, error>>
                           ELSE /\ pc' = raise(Len(stack))
                                /\ error' = "NetworkError"
                                /\ UNCHANGED <<connection, stack, peer, backlog, net_rx,
                                               net_tx>>
             [] plan = "panic" ->
                    /\ pc' = "panic"
                    /\ netcall' = None
                    /\ UNCHANGED <<connection, stack, error, peer, backlog, net_rx,
                                   net_tx>>
    /\ UNCHANGED <<config, in_pos, result, tape, pointer, listener, output,
                   peer_sent, peer_conns>>

\* VM::net_receive; stream.read returns a byte, Ok(0) once the peer closed and
\* nothing is in flight, or an error; the cell is indexed after the read
ExecReceive ==
    /\ Is("Receive")
    /\ LET plan == net_receive_plan(connection)
       IN  CASE plan = "read" ->
                    /\ netcall' = "read"
                    /\ \E r \in {"byte", "eof", "err"} :
                           /\ r = "byte" => net_rx # <<>>
                           /\ r = "eof" => (net_rx = <<>> /\ peer = "closed")
                           /\ net_rx' = IF r = "byte" THEN Tail(net_rx) ELSE net_rx
                           /\ IF InBounds(pointer)
                              THEN /\ tape' = SetCell(tape, pointer,
                                          receive_cell(r, IF r = "byte" THEN Head(net_rx)
                                                          ELSE 0))
                                   /\ stack' = Advance(stack)
                                   /\ pc' = pc
                              ELSE pc' = "panic" /\ UNCHANGED <<tape, stack>>
             [] plan = "zero" ->
                    /\ netcall' = None
                    /\ net_rx' = net_rx
                    /\ IF InBounds(pointer)
                       THEN /\ tape' = SetCell(tape, pointer, 0)
                            /\ stack' = Advance(stack)
                            /\ pc' = pc
                       ELSE pc' = "panic" /\ UNCHANGED <<tape, stack>>
    /\ UNCHANGED <<config, in_pos, result, pointer, listener, connection,
                   output, error, peer, backlog, peer_sent, net_tx, peer_conns>>

\* VM::net_send; write_all succeeds or fails (TcpStream::flush does nothing);
\* a byte written to a connection to the VM's own listener waits there
ExecSend ==
    /\ Is("Send")
    /\ LET plan == net_send_plan(connection, pointer)
       IN  CASE plan = "noop" ->
                    /\ stack' = Advance(stack)
                    /\ netcall' = None
                    /\ UNCHANGED <<pc, error, net_tx, backlog>>
             [] plan = "write" ->
                    /\ Len(net_tx) < MaxOut
                    /\ netcall' = "write"
                    /\ \E ok \in BOOLEAN :
                           IF ok
                           THEN /\ net_tx' = Append(net_tx, Cell(tape, pointer))
                                /\ backlog' = write_connection(backlog,
                                                               Cell(tape, pointer))
                                /\ stack' = Advance(stack)
                                /\ UNCHANGED <<pc, error>>
                           ELSE /\ pc' = raise(Len(stack))
                                /\ error' = "NetworkError"
                                /\ UNCHANGED <<net_tx, backlog, stack>>
             [] plan = "panic" ->
                    /\ pc' = "panic"
                    /\ netcall' = None
                    /\ UNCHANGED <<net_tx, backlog, stack, error>>
    /\ UNCHANGED <<config, in_pos, result, tape, pointer, listener, connection,
                   output, peer, peer_sent, net_rx, peer_conns>>

\* ------------------------------------------------------------------ the peer

\* the remote peers among the sockets waiting at the listener, and those of
\* them that have not closed their end
WaitingPeers(bl) == {k \in 1..Len(bl) : bl[k].from \in {"peer", "peer_closed"}}

OpenPeers(bl) == {k \in 1..Len(bl) : bl[k].from = "peer"}

\* a remote process connects to the address the listener is bound to and
\* waits there to be accepted, behind the sockets that wait already (the
\* VM's own among them, which do not count as peers)
PeerConnect ==
    /\ pc = "exec"
    /\ listener # Absent
    /\ Cardinality(WaitingPeers(backlog)) < MaxBacklog
    /\ peer_conns < MaxPeerConns
    /\ backlog' = Append(backlog, Waiting("peer", <<>>))
    /\ peer_conns' = peer_conns + 1
    /\ netcall' = None
    /\ UNCHANGED <<config, in_pos, pc, result, stack, tape, pointer, listener,
                   connection, output, error, peer, peer_sent, net_rx, net_tx>>

\* a peer writes the next byte: the remote end of the connection, or one that
\* waits at the listener
PeerSend ==
    /\ pc = "exec"
    /\ peer_sent < Len(peer_data)
    /\ \/ /\ peer = "open"
          /\ net_rx' = Append(net_rx, peer_data[peer_sent + 1])
          /\ backlog' = backlog
       \/ /\ \E k \in OpenPeers(backlog) :
                 backlog' = [backlog EXCEPT
                                ![k].data = Append(@, peer_data[peer_sent + 1])]
          /\ net_rx' = net_rx
    /\ peer_sent' = peer_sent + 1
    /\ netcall' = None
    /\ UNCHANGED <<config, in_pos, pc, result, stack, tape, pointer, listener,
                   connection, output, error, peer, net_tx, peer_conns>>

\* a peer closes its end: the remote end of the connection, or one that
\* waits at the listener
PeerClose ==
    /\ pc = "exec"
    /\ \/ /\ peer = "open"
          /\ peer' = "closed"
          /\ backlog' = backlog
       \/ /\ \E k \in OpenPeers(backlog) :
                 backlog' = [backlog EXCEPT ![k].from = "peer_closed"]
          /\ peer' = peer
    /\ netcall' = None
    /\ UNCHANGED <<config, in_pos, pc, result, stack, tape, pointer, listener,
                   connection, output, error, peer_sent, net_rx, net_tx,
                   peer_conns>>

\* ------------------------------------------------------------------ runs

Rep(c, n) == [i \in 1..n |-> c]
Texts(A, n) == UNION {[1..k -> A] : k \in 0..n}

Alphabet == {">", "<", "+", "-", ".", ",", "[", "]", "%", "$", "@", Backtick, Quote, "x"}
BracketAlphabet == {"[", "]", "+", ">", "x"}
RunChars == {">", "<", "+", "-"}
SampleBytes == {0, 65, 255}

\* ++++++++[>++++++++<-]>.
Hello == Rep("+", 8) \o <<"[", ">">> \o Rep("+", 8) \o <<"<", "-", "]", ">", ".">>

\* ,.
Echo == <<",", ".">>

\* ,[.,]
Cat == <<",", "[", ".", ",", "]">>

\* 127 0 0 1 35 40 in six cells, back to the first, then $@, backtick, quote
NetEcho == Rep("+", 127) \o <<">", ">", ">", "+", ">">> \o Rep("+", 35) \o <<">">>
           \o Rep("+", 40) \o Rep("<", 5) \o <<"$", "@", Backtick, Quote>>

LoopTexts == {
    <<"+", "[", ">", "]">>,
    <<"+", ">", "+", "<", "[", ">", "-", "]">>,
    <<"[", "+", ">", ".", "]", ".">>,
    <<"+", "+", "[", ">", "+", "<", "-", "]", ">", ".">>,
    <<"+", "+", "[", ">", "+", "+", "[", ">", "+", "<", "-", "]", "<", "-", "]", ">", ">", ".">>,
    <<"+", "[", "[", "-", "]", "]">>,
    <<"+", "[", "+", "[", ".", "]", "]", "+">>,
    <<"+", "[", "[", ",", "]", "+", "]", ".">>,
    <<"+", "[", "[", "$", "]", "]", "-">>,
    <<"$", "+", "[", "@", Backtick, Quote, "]">>,
    <<"%", "+", "[", Quote, Backtick, "]", ".">> }

PointerTexts == {
    Rep("<", TAPE_SIZE + 1) \o <<".">>,
    Rep("<", TAPE_SIZE + 1) \o <<">", "+">>,
    <<"<", "+", ">", "+", ">", "-">>,
    <<"%", "<", "%">>,
    <<"$", "<", "$">>,
    <<"<", "<", "<", "<", "<", "$">>,
    <<"<", "<", "<", "<", "<", "<", "%">> }

\* port 256 in the port cells, then $%@@
SelfConnect == <<">", ">", ">", ">", "+", "<", "<", "<", "<", "$", "%", "@", "@">>

\* port 256 in the port cells, then $%+ quote @@> backtick
SelfEcho == <<">", ">", ">", ">", "+", "<", "<", "<", "<", "$", "%", "+", Quote,
              "@", "@", ">", Backtick>>

\* port 256 in the port cells, then $%@@@@> backtick
SelfThenPeer == <<">", ">", ">", ">", "+", "<", "<", "<", "<", "$", "%", "@", "@",
                  "@", "@", ">", Backtick>>

\* $@@@, $%@@, %%%%%, %+ backtick, $+ quote, and the three above
NetTexts == {
    SelfConnect,
    SelfEcho,
    SelfThenPeer,
    <<"$", "@", "@", "@">>,
    <<"$", "%", "@", "@">>,
    <<"%", "%", "%", "%", "%">>,
    <<"%", "+", Backtick>>,
    <<"$", "+", Quote>> }

Run(s, i, d) == [source |-> s, input |-> i, peer_data |-> d]

Scenarios ==
    {Run(s, i, d) : s \in Texts(Alphabet, MaxSrcLen),
                    i \in {<<>>, <<65>>}, d \in {<<>>, <<66>>}}
    \cup {Run(s, <<>>, <<>>) : s \in {Hello} \cup PointerTexts}
    \cup {Run(Echo, <<b>>, <<>>) : b \in Bytes}
    \cup {Run(s, i, <<>>) : s \in {Echo, Cat}, i \in Texts(SampleBytes, MaxInput)}
    \cup {Run(NetEcho, <<>>, <<b>>) : b \in Bytes}
    \cup {Run(NetEcho, <<>>, d) : d \in {<<>>, <<1, 2>>}}
    \cup {Run(s, i, d) : s \in LoopTexts, i \in {<<>>, <<0>>, <<1, 0>>},
                         d \in {<<>>, <<66>>}}
    \cup {Run(s, <<>>, d) : s \in NetTexts, d \in {<<>>, <<66>>}}

NoResult == [ok |-> FALSE, ops |-> <<>>, err |-> None, pos |-> 0]

\* no socket open, nothing read or written yet
FreshIO ==
    /\ in_pos = 0
    /\ listener = Absent
    /\ connection = Absent
    /\ output = <<>>
    /\ error = None
    /\ peer = "idle"
    /\ backlog = <<>>
    /\ peer_sent = 0
    /\ net_rx = <<>>
    /\ net_tx = <<>>
    /\ peer_conns = 0
    /\ netcall = None

\* VM::new(), before main parses
Fresh ==
    /\ tape = <<>>
    /\ pointer = 0
    /\ FreshIO

Init ==
    /\ \E sc \in Scenarios :
           source = sc.source /\ input = sc.input /\ peer_data = sc.peer_data
    /\ overflow_checks \in BOOLEAN
    /\ pc = "parse"
    /\ result = NoResult
    /\ stack = <<>>
    /\ Fresh

Next ==
    \/ Parse
    \/ ExecMoveRight
    \/ ExecMoveLeft
    \/ ExecIncrement
    \/ ExecDecrement
    \/ ExecOutput
    \/ ExecInput
    \/ ExecLoop
    \/ ExecReturn
    \/ Finish
    \/ ExecListen
    \/ ExecAccept
    \/ ExecConnect
    \/ ExecReceive
    \/ ExecSend
    \/ PeerConnect
    \/ PeerSend
    \/ PeerClose

Spec == Init /\ [][Next]_vars

\* ------------------------------------------------------------------ parsing alone

RunTexts ==
    UNION {{pre \o Rep(c, n) \o post :
               n \in 1..MaxRun,
               pre \in {<<>>, <<",">>}, post \in {<<>>, <<".">>, <<"x", c>>}} :
           c \in RunChars}

ParseTexts ==
    Texts(Alphabet, MaxSrcLen) \cup Texts(BracketAlphabet, MaxParseLen) \cup RunTexts

\* main up to the return of interpreter::parse, for every text of ParseTexts
InitParse ==
    /\ source \in ParseTexts
    /\ input = <<>>
    /\ peer_data = <<>>
    /\ overflow_checks = TRUE
    /\ pc = "parse"
    /\ result = NoResult
    /\ stack = <<>>
    /\ Fresh

ParseNext == Parse

ParseSpec == InitParse /\ [][ParseNext]_vars

Parsed == pc # "parse"

\* ------------------------------------------------------------------ C2

\* Bracket matching by a stack of open positions, independent of the parser:
\* [open, close] = the 0-based positions of the '[' left unmatched and of the
\* ']' that have no open '[' before them.
RECURSIVE BracketMatch(_, _, _, _)
BracketMatch(chars, i, opens, closes) ==
    IF i >= Len(chars) THEN [open |-> opens, close |-> closes]
    ELSE CASE chars[i + 1] = "[" ->
                  BracketMatch(chars, i + 1, Append(opens, i), closes)
           [] chars[i + 1] = "]" ->
                  IF opens = <<>>
                  THEN BracketMatch(chars, i + 1, opens, Append(closes, i))
                  ELSE BracketMatch(chars, i + 1, SubSeq(opens, 1, Len(opens) - 1), closes)
           [] OTHER -> BracketMatch(chars, i + 1, opens, closes)

Unmatched(chars) == BracketMatch(chars, 0, <<>>, <<>>)
Balanced(chars) == Unmatched(chars).open = <<>> /\ Unmatched(chars).close = <<>>

\* the error the claim names for an unbalanced text
ExpectedError(chars) ==
    LET u == Unmatched(chars)
    IN  IF u.close # <<>>
        THEN Err("UnmatchedCloseBracket", u.close[1])
        ELSE Err("UnmatchedOpenBracket", u.open[1])

\* C2: parse fails exactly when the brackets of the text are unbalanced, and
\* the error then names the leftmost unmatched bracket by its 0-based index in
\* the whole text: the first ']' with no open '[' before it if there is one,
\* otherwise the first '[' that is never closed.
C2_ParseErrorPosition ==
    Parsed =>
        /\ result.ok <=> Balanced(source)
        /\ ~result.ok => result = ExpectedError(source)
        /\ (pc = "parse_error") <=> ~result.ok

\* an error found after a nested loop, at an index no loop body has
C2_Witness ==
    /\ pc = "parse_error"
    /\ source = <<"[", "[", "]", "]", "[">>
    /\ result = Err("UnmatchedOpenBracket", 4)

\* ------------------------------------------------------------------ C3

IsCommand(c) == c \in Alphabet \ {"x"}

\* the positions (1-based) where the parser starts a token: every command
\* character that does not continue a run of its own kind
TokenStarts(chars) ==
    {k \in 1..Len(chars) :
        /\ IsCommand(chars[k])
        /\ (chars[k] \in RunChars /\ k > 1) => chars[k - 1] # chars[k]}

\* the length of the maximal run of chars[k] that starts at k
RunLength(chars, k) ==
    LET after == {j \in (k + 1)..Len(chars) : chars[j] # chars[k]}
        stop == IF after = {} THEN Len(chars) + 1
                ELSE CHOOSE j \in after : \A m \in after : j <= m
    IN  stop - k

\* what the claim says the token at k becomes ('[' and ']' stand for the
\* start and the end of a Loop)
TokenOp(chars, k) ==
    CASE chars[k] = ">" -> OpN("MoveRight", RunLength(chars, k))
      [] chars[k] = "<" -> OpN("MoveLeft", RunLength(chars, k))
      [] chars[k] = "+" -> OpN("Increment", RunLength(chars, k) % 256)
      [] chars[k] = "-" -> OpN("Decrement", RunLength(chars, k) % 256)
      [] chars[k] = "." -> Op0("Output")
      [] chars[k] = "," -> Op0("Input")
      [] chars[k] = "%" -> Op0("Connect")
      [] chars[k] = "$" -> Op0("Listen")
      [] chars[k] = "@" -> Op0("Accept")
      [] chars[k] = Backtick -> Op0("Receive")
      [] chars[k] = Quote -> Op0("Send")
      [] OTHER -> Op0(chars[k])

RECURSIVE SortedSeq(_)
SortedSeq(S) ==
    IF S = {} THEN <<>>
    ELSE LET m == CHOOSE x \in S : \A y \in S : x <= y
         IN  <<m>> \o SortedSeq(S \ {m})

ExpectedTokens(chars) ==
    LET starts == SortedSeq(TokenStarts(chars))
    IN  [j \in 1..Len(starts) |-> TokenOp(chars, starts[j])]

\* an operation tree written out in order, each Loop as '[' body ']'
RECURSIVE Flatten(_)
Flatten(ops) ==
    IF ops = <<>> THEN <<>>
    ELSE LET o == Head(ops)
         IN  (IF o.op = "Loop"
              THEN <<Op0("[")>> \o Flatten(o.body) \o <<Op0("]")>>
              ELSE <<o>>) \o Flatten(Tail(ops))

\* C3: every maximal run of N >= 1 identical characters among > < + - parses
\* to exactly one operation, MoveRight(N), MoveLeft(N), Increment(N mod 256)
\* or Decrement(N mod 256), and the next operation comes from the character
\* just after the run: the operations of a parsed text, in order, are exactly
\* one per maximal run and one per other command character.
C3_RunLength ==
    (Parsed /\ result.ok) => Flatten(result.ops) = ExpectedTokens(source)

\* a run of 256 '+' has been parsed to the single operation Increment(0)
C3_Witness ==
    /\ Parsed
    /\ source = Rep("+", 256)
    /\ result = Ok(<<OpN("Increment", 0)>>)

\* ------------------------------------------------------------------ one operation

PointerSamples == {0, 1, TAPE_SIZE \div 2, TAPE_SIZE - 2, TAPE_SIZE - 1}

CountSamples ==
    1..MaxCount
    \cup {TAPE_SIZE - 1, TAPE_SIZE, TAPE_SIZE + 1, TAPE_SIZE + 2,
          2 * TAPE_SIZE - 1, 2 * TAPE_SIZE, 2 * TAPE_SIZE + 1}

\* a call execute(&[op]) on a VM whose pointer is p, whose cell p holds c and
\* whose next cell holds 9
OneOp(op, p, c) ==
    /\ result = Ok(<<op>>)
    /\ stack = <<Frame(<<op>>)>>
    /\ pointer = p
    /\ tape = SetCell(SetCell(<<>>, (p + 1) % TAPE_SIZE, 9), p, c)

\* One movement or arithmetic operation executed on a state programs reach:
\* the pointer anywhere on the tape, the cell under it holding any byte.
InitOp ==
    /\ source = <<>>
    /\ input = <<>>
    /\ peer_data = <<>>
    /\ overflow_checks \in BOOLEAN
    /\ pc = "exec"
    /\ FreshIO
    /\ \/ \E name \in {"MoveRight", "MoveLeft"}, n \in CountSamples,
             p \in PointerSamples, c \in {0, 7} : OneOp(OpN(name, n), p, c)
       \/ \E name \in {"Increment", "Decrement"}, n \in Bytes,
             c \in Bytes : OneOp(OpN(name, n), TAPE_SIZE - 1, c)

NextOp ==
    \/ ExecMoveRight
    \/ ExecMoveLeft
    \/ ExecIncrement
    \/ ExecDecrement
    \/ Finish

OpSpec == InitOp /\ [][NextOp]_vars

\* ------------------------------------------------------------------ C1

\* C1: the pointer stays in [0, TAPE_SIZE): MoveRight(n) leaves it at
\* (p + n) mod TAPE_SIZE and MoveLeft(n) at (p - n) mod TAPE_SIZE, for every
\* pointer p in range and every count n >= 1, and execution goes on.
C1_PointerWraps ==
    [][/\ Is("MoveRight") =>
              (pc' = "exec" /\ pointer' = (pointer + CurOp.n) % TAPE_SIZE)
       /\ Is("MoveLeft") =>
              (pc' = "exec" /\ pointer' = (pointer - CurOp.n) % TAPE_SIZE)]_vars

\* ------------------------------------------------------------------ C10

\* C10: with the pointer on a cell holding c, Increment(n) leaves
\* (c + n) mod 256 in it and Decrement(n) leaves (c - n) mod 256, for every
\* byte c and every n in 0..255; every other cell and the pointer stay as
\* they were and the operation does not fail.
C10_CellWraps ==
    [][(InBounds(pointer) /\ (Is("Increment") \/ Is("Decrement"))) =>
          LET c == Cell(tape, pointer)
              v == IF Is("Increment") THEN (c + CurOp.n) % 256
                   ELSE (c - CurOp.n) % 256
          IN  /\ pc' = "exec"
              /\ error' = None
              /\ pointer' = pointer
              /\ Cell(tape', pointer) = v
              /\ v \in Bytes
              /\ \A q \in (DOMAIN tape \cup DOMAIN tape') \ {pointer} :
                     Cell(tape', q) = Cell(tape, q)]_vars

\* Decrement(1) has run on the last cell of the tape and left 255 there: the
\* cell held 0
C10_Witness ==
    /\ pc = "done"
    /\ result.ops = <<OpN("Decrement", 1)>>
    /\ pointer = TAPE_SIZE - 1
    /\ Cell(tape, pointer) = 255
    /\ Cell(tape, 0) = 9

\* ------------------------------------------------------------------ C4

\* the step is the VM's execution of the operation `name` at hand (a step of
\* the peer leaves pc and stack alone)
Ran(name) == Is(name) /\ (stack' # stack \/ pc' # pc)

\* the frames under the innermost one, which wait in their Loop operation
Callers(st) == SubSeq(st, 1, Len(st) - 1)

\* C4: a Loop tests the cell under the pointer as it is at the time of the
\* test, before every iteration and before the first: on a zero cell the Loop
\* is over and nothing of the VM changed, otherwise one run of the body
\* starts; a body returns only from its end, to a Loop that tests again; the
\* calls that wait are untouched meanwhile; and a Loop that is over leaves a
\* zero cell under the pointer.
C4_LoopTest ==
    [][/\ (Ran("Loop") /\ InBounds(pointer)) =>
              /\ pc' = "exec"
              /\ UNCHANGED <<tape, pointer, listener, connection, output, in_pos,
                             net_rx, net_tx, error>>
              /\ stack' = IF Cell(tape, pointer) = 0
                          THEN Advance(stack)
                          ELSE Append(stack, Frame(CurOp.body))
       /\ (Ran("Loop") /\ pc' = "exec" /\ Len(stack') = Len(stack)) =>
              (InBounds(pointer') /\ Cell(tape', pointer') = 0)
       /\ (pc = "exec" /\ pc' = "exec" /\ Len(stack') < Len(stack)) =>
              /\ Top.i = Len(Top.ops)
              /\ stack' = Callers(stack)
              /\ stack'[Len(stack')].ops[stack'[Len(stack')].i + 1] = OpLoop(Top.ops)
       /\ (pc = "exec" /\ pc' = "exec" /\ Len(stack') >= Len(stack)) =>
              Callers(stack) = SubSeq(stack', 1, Len(stack) - 1)]_vars

\* +[>] is over: the one iteration moved the pointer to cell 1, which is 0,
\* while the cell tested first still holds 1
C4_Witness ==
    /\ source = <<"+", "[", ">", "]">>
    /\ pc = "done"
    /\ pointer = 1
    /\ Cell(tape, 0) = 1

\* ------------------------------------------------------------------ C5

\* main on the text ++++++++[>++++++++<-]>. alone, with any standard input,
\* from the return of interpreter::parse
InitHello ==
    /\ source = Hello
    /\ input \in Texts(SampleBytes, MaxInput)
    /\ peer_data = <<>>
    /\ overflow_checks \in BOOLEAN
    /\ LET r == parse(source)
       IN  /\ result = r
           /\ pc = IF r.ok THEN "exec" ELSE "parse_error"
           /\ stack = IF r.ok THEN <<Frame(r.ops)>> ELSE <<>>
    /\ Fresh

NextHello ==
    \/ ExecMoveRight
    \/ ExecMoveLeft
    \/ ExecIncrement
    \/ ExecDecrement
    \/ ExecOutput
    \/ ExecLoop
    \/ ExecReturn
    \/ Finish

\* the process is the only thread and always takes its next step
HelloSpec == InitHello /\ [][NextHello]_vars /\ WF_vars(NextHello)

\* C5: ++++++++[>++++++++<-]>. parses, and its execution on a fresh VM ends;
\* it ends with success and the single byte 64 on the output stream, unless
\* the output stream itself refused that byte.
C5_Hello ==
    /\ <>(pc = "done" \/ error = "IoError")
    /\ [](pc \notin {"parse_error", "panic"})
    /\ [](pc = "done" => output = <<64>>)
    /\ [](error # None => (error = "IoError" /\ CurOp.op = "Output" /\ output = <<>>))

C5_Witness ==
    /\ source = Hello
    /\ pc = "done"
    /\ output = <<64>>
    /\ pointer = 1
    /\ Cell(tape, 0) = 0

\* ------------------------------------------------------------------ C6

\* C6: an Input whose read did not fault takes the next byte of the input
\* stream, in order, into the cell under the pointer, and at the end of the
\* stream takes nothing, stores 0 and succeeds all the same; nothing else
\* moves the read position; and the program ,. on the one-byte input b ends
\* with exactly b on the output stream (0 on the empty input).
C6_Input ==
    [][/\ (Ran("Input") /\ InBounds(pointer) /\ error' = None) =>
              /\ pc' = "exec"
              /\ stack' = Advance(stack)
              /\ IF in_pos < Len(input)
                 THEN in_pos' = in_pos + 1 /\ Cell(tape', pointer) = input[in_pos + 1]
                 ELSE in_pos' = in_pos /\ Cell(tape', pointer) = 0
       /\ in_pos' # in_pos => Ran("Input")
       /\ (source = Echo /\ pc' = "done") =>
              output' = <<IF input = <<>> THEN 0 ELSE input[1]>>]_vars

\* ,. has echoed the byte 200
C6_Witness ==
    /\ source = Echo
    /\ input = <<200>>
    /\ pc = "done"
    /\ in_pos = 1
    /\ output = <<200>>

\* ------------------------------------------------------------------ C7

\* C7: a Connect executed while a connection is present sets the slot absent,
\* makes no socket call, does not index the tape (it cannot panic wherever the
\* pointer is) and does not fail. So %% ends with no connection: after two
\* Connects when the first succeeded (the remote end saw its connection
\* closed), at the first Connect when it failed (no remote end ever had one).
C7_ConnectToggle ==
    [][/\ (Ran("Connect") /\ connection # Absent) =>
              /\ connection' = Absent
              /\ netcall' = None
              /\ pc' = "exec"
              /\ error' = None
              /\ stack' = Advance(stack)
              /\ backlog' = drop_connection(backlog)
              /\ UNCHANGED <<tape, pointer, listener, peer_conns>>
       /\ (source = <<"%", "%">> /\ pc' = "done") =>
              (connection' = Absent /\ peer' = "closed")
       /\ (source = <<"%", "%">> /\ pc' = "runtime_error") =>
              (connection' = Absent /\ peer' = "idle" /\ stack'[1].i = 0)]_vars

\* %<% is over: the first Connect opened a connection, the second closed it
\* with the pointer on the last cell of the tape
C7_Witness ==
    /\ source = <<"%", "<", "%">>
    /\ pc = "done"
    /\ pointer = TAPE_SIZE - 1
    /\ connection = Absent
    /\ peer = "closed"

\* ------------------------------------------------------------------ C8

ErrorOf(name) ==
    CASE name \in {"Output", "Input"} -> "IoError"
      [] name \in {"Listen", "Connect", "Accept", "Send"} -> "NetworkError"
      [] OTHER -> None

\* C8: an operation that fails ends execution with its error at once: the
\* failing step changes nothing of the tape, the pointer, the two slots, the
\* streams or the position in the program, whatever the nesting depth; no
\* step follows it; what earlier operations did stays done.
C8_ErrorStops ==
    [][/\ pc # "runtime_error"
       /\ error' # None =>
              /\ error = None
              /\ pc' = "runtime_error"
              /\ AtOp
              /\ error' = ErrorOf(CurOp.op)
              /\ UNCHANGED <<tape, pointer, listener, connection, stack, output,
                             net_tx, net_rx, backlog, in_pos>>]_vars

\* +[+[.]]+ failed at its second Output, two loops deep, after the first
\* Output wrote the byte 2
C8_Witness ==
    /\ source = <<"+", "[", "+", "[", ".", "]", "]", "+">>
    /\ pc = "runtime_error"
    /\ error = "IoError"
    /\ Len(stack) = 3
    /\ output = <<2>>
    /\ Cell(tape, 0) = 2

\* ------------------------------------------------------------------ C9

Loopback9000 == [addr |-> <<127, 0, 0, 1>>, port |-> 9000]

\* C9: Accept stores a connection only when a peer has connected to the
\* listener; in the echo program the listener is bound to 127.0.0.1:9000, the
\* Receive that takes a byte b of the accepted peer leaves b in the current
\* cell, the Send writes that cell to the same connection, and the program
\* ends with exactly b sent back, for every byte b.
C9_NetEcho ==
    [][/\ (Ran("Accept") /\ connection = Absent /\ connection' # Absent) =>
              /\ backlog # <<>>
              /\ listener # Absent
              /\ connection'[1].via = "accept"
       /\ (source = NetEcho /\ listener' # Absent) => listener' = Some(Loopback9000)
       /\ (source = NetEcho /\ connection' # Absent) =>
              (peer_conns' >= 1 /\ connection'[1].via = "accept"
               /\ connection'[1].port = 9000)
       /\ (source = NetEcho /\ Ran("Receive") /\ Len(net_rx') < Len(net_rx)) =>
              /\ pc' = "exec"
              /\ Cell(tape', pointer') = Head(net_rx)
              /\ \E k \in 1..peer_sent : Head(net_rx) = peer_data[k]
       /\ (source = NetEcho /\ Ran("Send") /\ error' = None) =>
              (connection # Absent /\ net_tx' = <<Cell(tape, pointer)>>)
       /\ (source = NetEcho /\ pc' = "done") =>
              /\ net_tx' = <<Cell(tape', pointer')>>
              /\ Cell(tape', pointer') # 0 =>
                     \E k \in 1..peer_sent' : net_tx' = <<peer_data[k]>>]_vars

\* the echo program is over and the peer holds the byte 200 it sent
C9_Witness ==
    /\ source = NetEcho
    /\ peer_data = <<200>>
    /\ pc = "done"
    /\ connection # Absent
    /\ Cell(tape, 0) = 200
    /\ net_tx = <<200>>

\* ------------------------------------------------------------------ C11

\* the character a payload-free or counted operation is written with
OpChar(name) ==
    CASE name = "MoveRight" -> ">"
      [] name = "MoveLeft" -> "<"
      [] name = "Increment" -> "+"
      [] name = "Decrement" -> "-"
      [] name = "Output" -> "."
      [] name = "Input" -> ","
      [] name = "Connect" -> "%"
      [] name = "Listen" -> "$"
      [] name = "Accept" -> "@"
      [] name = "Receive" -> Backtick
      [] name = "Send" -> Quote

Counted(name) == name \in {"MoveRight", "MoveLeft", "Increment", "Decrement"}

\* the canonical text of an operation tree: a counted operation is its
\* character count times, a Loop is '[' body ']', any other operation is its
\* character
RECURSIVE Serialize(_)
Serialize(ops) ==
    IF ops = <<>> THEN <<>>
    ELSE LET o == Head(ops)
         IN  (CASE o.op = "Loop" -> <<"[">> \o Serialize(o.body) \o <<"]">>
                [] Counted(o.op) -> Rep(OpChar(o.op), o.n)
                [] OTHER -> <<OpChar(o.op)>>) \o Serialize(Tail(ops))

\* C11 as stated: the canonical text of every parsed tree parses to that tree
C11_RoundTrip ==
    (Parsed /\ result.ok) => parse(Serialize(result.ops)) = Ok(result.ops)

\* a tree whose canonical text keeps its operations apart: no counted
\* operation has count 0 and no two neighbours are the same counted operation,
\* in the sequence and in every loop body
RECURSIVE Separated(_)
Separated(ops) ==
    /\ \A k \in 1..Len(ops) :
           /\ Counted(ops[k].op) => ops[k].n # 0
           /\ (k > 1 /\ Counted(ops[k].op)) => ops[k - 1].op # ops[k].op
    /\ \A k \in 1..Len(ops) : ops[k].op = "Loop" => Separated(ops[k].body)

\* C11 (amended): for every source text that parses to a tree T in which no
\* counted operation has count 0 and no two neighbouring operations are the
\* same counted operation, the canonical text of T parses to a tree equal to T.
C11_RoundTripSeparated ==
    (Parsed /\ result.ok /\ Separated(result.ops)) =>
        parse(Serialize(result.ops)) = Ok(result.ops)

\* [+x>] has been parsed; its tree is written [+>], another text, which
\* parses to the same tree
C11_Witness ==
    /\ Parsed
    /\ source = <<"[", "+", "x", ">", "]">>
    /\ result = Ok(<<OpLoop(<<OpN("Increment", 1), OpN("MoveRight", 1)>>)>>)
    /\ Serialize(result.ops) = <<"[", "+", ">", "]">>
    /\ Separated(result.ops)

\* ------------------------------------------------------------------ C12

\* C12: each slot holds at most one socket and an open socket is never
\* replaced by another. A Listen that finds a listener sets the slot absent,
\* binds nothing, does not index the tape (it cannot panic wherever the
\* pointer is) and does not fail; a listener is bound only into an absent
\* slot, by Listen; a connection is stored only into an absent slot, by
\* Connect or Accept; and the far end of a connection (a remote peer, or a
\* socket waiting at the VM's own listener) holds it open only while the
\* connection slot holds it.
C12_OneSocket ==
    [][/\ Len(listener') <= 1
       /\ Len(connection') <= 1
       /\ peer' \in {"open", "own"} => connection' # Absent
       /\ (\E k \in 1..Len(backlog') : backlog'[k].from = "vm") <=> peer' = "own"
       /\ listener' # listener =>
              (Ran("Listen") /\ (listener = Absent \/ listener' = Absent))
       /\ (Ran("Listen") /\ listener # Absent) =>
              /\ listener' = Absent
              /\ netcall' = None
              /\ pc' = "exec"
              /\ error' = None
              /\ stack' = Advance(stack)
              /\ UNCHANGED <<tape, pointer, connection>>
       /\ (Ran("Listen") /\ listener' # Absent) =>
              (listener = Absent /\ netcall' = "bind")
       /\ connection' # connection =>
              /\ Ran("Connect") \/ Ran("Accept")
              /\ connection = Absent \/ connection' = Absent
       /\ (connection' # connection /\ connection' # Absent) =>
              netcall' = (IF Is("Connect") THEN "connect" ELSE "accept")]_vars

\* $<$ is over: the second Listen found the listener of the first and closed
\* it with the pointer on the last cell of the tape
C12_Witness ==
    /\ source = <<"$", "<", "$">>
    /\ pc = "done"
    /\ pointer = TAPE_SIZE - 1
    /\ listener = Absent

\* ------------------------------------------------------------------ C13

\* C13: an Accept that does not fail does one of three things, chosen by the
\* slots. Connection present (from Connect or from Accept, listener or not):
\* the slot is set absent and no socket is accepted, the waiting ones keep
\* waiting. No connection, a listener: it returns only with the socket that
\* has waited longest at the listener (a remote peer's, or the far end of a
\* connection the VM made to its own listener and has dropped since), stored
\* as the connection with the bytes written to it. Neither: nothing changes. The listener slot, the tape and the
\* pointer are unchanged in all three, and also when Accept fails, which it
\* can only in the second case, the one that makes a socket call.
C13_AcceptOutcomes ==
    [][/\ Ran("Accept") => UNCHANGED <<listener, tape, pointer>>
       /\ (Ran("Accept") /\ (connection # Absent \/ listener = Absent)) =>
              (error' = None /\ netcall' = None)
       /\ (Ran("Accept") /\ error' = None) =>
              /\ pc' = "exec"
              /\ stack' = Advance(stack)
              /\ peer_conns' = peer_conns
              /\ CASE connection # Absent ->
                          /\ connection' = Absent
                          /\ netcall' = None
                          /\ peer' # "open"
                          /\ backlog' = drop_connection(backlog)
                   [] connection = Absent /\ listener # Absent ->
                          /\ netcall' = "accept"
                          /\ backlog # <<>>
                          /\ Head(backlog).from # "vm"
                          /\ backlog' = Tail(backlog)
                          /\ net_rx' = Head(backlog).data
                          /\ peer' \in {"open", "closed"}
                          /\ peer' = "open" <=> Head(backlog).from = "peer"
                          /\ connection' = Some([via |-> "accept",
                                                 addr |-> listener[1].addr,
                                                 port |-> listener[1].port])
                   [] OTHER ->
                          /\ netcall' = None
                          /\ UNCHANGED <<connection, peer, backlog, net_rx,
                                         net_tx>>]_vars

\* $@@@ is over: the listener accepted a peer, the second Accept closed that
\* connection, and the third accepted a second peer on the same listener
C13_Witness ==
    /\ source = <<"$", "@", "@", "@">>
    /\ pc = "done"
    /\ listener # Absent
    /\ connection # Absent
    /\ connection[1].via = "accept"
    /\ peer_conns = 2

\* ------------------------------------------------------------------ C14

\* C14: a Receive executed with the pointer on a cell raises no error and
\* execution goes on with the next operation. With a connection it reads the
\* stream and the cell becomes the byte it took, or 0 when it took none (end
\* of stream, read error); without one it makes no socket call and the cell
\* becomes 0. The pointer, every other cell and both slots are unchanged; no
\* error is ever raised by a Receive.
C14_ReceiveNeverFails ==
    [][/\ (Ran("Receive") /\ InBounds(pointer)) =>
              /\ pc' = "exec"
              /\ error' = None
              /\ stack' = Advance(stack)
              /\ UNCHANGED <<pointer, listener, connection>>
              /\ \A q \in (DOMAIN tape \cup DOMAIN tape') \ {pointer} :
                     Cell(tape', q) = Cell(tape, q)
              /\ IF connection = Absent
                 THEN netcall' = None /\ Cell(tape', pointer) = 0 /\ net_rx' = net_rx
                 ELSE /\ netcall' = "read"
                      /\ \/ net_rx # <<>> /\ net_rx' = Tail(net_rx)
                            /\ Cell(tape', pointer) = Head(net_rx)
                         \/ net_rx' = net_rx /\ Cell(tape', pointer) = 0
       /\ error' # error => ~Is("Receive")]_vars

\* %+ backtick is over: the cell held 1, the peer's byte 66 is still in
\* flight, so the read failed, and the cell holds 0
C14_Witness ==
    /\ source = <<"%", "+", Backtick>>
    /\ pc = "done"
    /\ connection # Absent
    /\ net_rx = <<66>>
    /\ Cell(tape, 0) = 0
    /\ error = None

\* ------------------------------------------------------------------ C15

\* C15: only MoveRight and MoveLeft change the pointer; only Increment,
\* Decrement, Input and Receive change the tape, and only at the cell under
\* the pointer; a Send without a connection succeeds and changes nothing but
\* the position in the program.
C15_Frame ==
    [][/\ pointer' # pointer => (Ran("MoveRight") \/ Ran("MoveLeft"))
       /\ tape' # tape =>
              /\ \/ Ran("Increment") \/ Ran("Decrement")
                 \/ Ran("Input") \/ Ran("Receive")
              /\ \A q \in (DOMAIN tape \cup DOMAIN tape') \ {pointer} :
                     Cell(tape', q) = Cell(tape, q)
       /\ (Ran("Send") /\ connection = Absent) =>
              /\ pc' = "exec"
              /\ error' = None
              /\ netcall' = None
              /\ stack' = Advance(stack)
              /\ UNCHANGED <<tape, pointer, listener, connection, output, in_pos,
                             peer, backlog, peer_sent, net_rx, net_tx,
                             peer_conns>>]_vars

\* $+ quote is over: Listen, Increment and a Send without a connection; the
\* listener and the cell are as Listen and Increment left them
C15_Witness ==
    /\ source = <<"$", "+", Quote>>
    /\ pc = "done"
    /\ listener # Absent
    /\ connection = Absent
    /\ Cell(tape, 0) = 1
    /\ net_tx = <<>>

\* ------------------------------------------------------------------ one socket operation

\* pointers at and around the last one whose six cells are on the tape
NetPointerSamples == {0, 1, TAPE_SIZE - 7, TAPE_SIZE - 6, TAPE_SIZE - 5, TAPE_SIZE - 1}

AddressSamples == {0, 1, 127, 255}

\* the two port cells: every high byte with a few low bytes and every low byte
\* with a few high bytes
PortSamples ==
    {<<hi, lo>> : hi \in Bytes, lo \in {0, 40, 255}}
    \cup {<<hi, lo>> : hi \in {0, 35, 255}, lo \in Bytes}

\* the tape that holds the six bytes of cells from index p on (the cells past
\* the end of the tape do not exist) and 9 in the cell before them
SixCells(p, cells) ==
    LET on == {k \in 0..5 : InBounds(p + k)}
        before == (p + TAPE_SIZE - 1) % TAPE_SIZE
    IN  [q \in {p + k : k \in {j \in on : cells[j + 1] # 0}} \cup {before} |->
            IF q = before THEN 9 ELSE cells[q - p + 1]]

\* a call execute(&[op]) of Listen or Connect on a VM whose pointer is p
OneNetOp(name, p, cells) ==
    /\ result = Ok(<<Op0(name)>>)
    /\ stack = <<Frame(<<Op0(name)>>)>>
    /\ pointer = p
    /\ tape = SixCells(p, cells)

\* One Listen or Connect executed on a state programs reach: no socket open,
\* the pointer anywhere on the tape, any bytes in the cells from it on.
InitNetOp ==
    /\ source = <<>>
    /\ input = <<>>
    /\ peer_data = <<>>
    /\ overflow_checks \in BOOLEAN
    /\ pc = "exec"
    /\ FreshIO
    /\ \E name \in {"Listen", "Connect"}, p \in NetPointerSamples :
           \/ \E a \in [1..4 -> AddressSamples] :
                  OneNetOp(name, p, a \o <<35, 40>>)
           \/ \E pt \in PortSamples :
                  OneNetOp(name, p, <<127, 0, 0, 1>> \o pt)

NextNetOp ==
    \/ ExecListen
    \/ ExecConnect
    \/ Finish

NetOpSpec == InitNetOp /\ [][NextNetOp]_vars

\* ------------------------------------------------------------------ C16

\* the target the claim names: octets tape[p] .. tape[p+3] in that order,
\* port 256 * tape[p+4] + tape[p+5]
Decoded(t, p) ==
    [addr |-> <<Cell(t, p), Cell(t, p + 1), Cell(t, p + 2), Cell(t, p + 3)>>,
     port |-> 256 * Cell(t, p + 4) + Cell(t, p + 5)]

\* C16: a Listen that binds and a Connect that connects open their socket on
\* the same target, the one decoded from the six cells from the pointer on:
\* address tape[p].tape[p+1].tape[p+2].tape[p+3], port 256 * tape[p+4] +
\* tape[p+5], a 16-bit number; they reach the socket call at every pointer
\* whose six cells are on the tape, and at no other.
C16_AddressDecoding ==
    [][/\ (Ran("Listen") /\ listener' # Absent) =>
              /\ listener' = Some(Decoded(tape, pointer))
              /\ listener'[1].port \in 0..65535
       /\ (Ran("Connect") /\ connection' # Absent) =>
              /\ connection'[1].addr = Decoded(tape, pointer).addr
              /\ connection'[1].port = Decoded(tape, pointer).port
       /\ (Ran("Listen") \/ Ran("Connect")) =>
              (netcall' \in {"bind", "connect"} <=> AddressInBounds(pointer))]_vars

\* Listen has bound 1.127.0.255:9000 from the last six cells of the tape
C16_Witness ==
    /\ pc = "done"
    /\ result.ops = <<Op0("Listen")>>
    /\ pointer = TAPE_SIZE - 6
    /\ Cell(tape, TAPE_SIZE - 1) = 40
    /\ listener = Some([addr |-> <<1, 127, 0, 255>>, port |-> 9000])

\* ------------------------------------------------------------------ C18

\* C18: no operation indexes the tape outside [0, TAPE_SIZE): an operation
\* other than a move, executed with the pointer on the tape, finds every cell
\* it reads or writes on the tape (the Vec does not refuse the index), also a
\* Listen or Connect that reads the six cells from a pointer above
\* TAPE_SIZE - 6.
C18_TapeAccessInBounds ==
    [][(AtOp /\ CurOp.op \notin {"MoveRight", "MoveLeft"} /\ InBounds(pointer)) =>
          pc' # "panic"]_vars

\* ------------------------------------------------------------------ C17

\* how many c there are among chars[a..b]
CountIn(chars, a, b, c) == Cardinality({j \in a..b : chars[j] = c})

\* how many '[' are open after chars[1..k]
DepthAfter(chars, k) == CountIn(chars, 1, k, "[") - CountIn(chars, 1, k, "]")

\* the position of the ']' that closes the '[' at position k (1-based)
MatchOf(chars, k) ==
    CHOOSE m \in (k + 1)..Len(chars) :
        /\ chars[m] = "]"
        /\ CountIn(chars, k, m, "[") = CountIn(chars, k, m, "]")
        /\ \A j \in (k + 1)..(m - 1) :
               chars[j] = "]" => CountIn(chars, k, j, "[") # CountIn(chars, k, j, "]")

\* the '[' that no other bracket pair encloses
TopOpens(chars) ==
    {k \in 1..Len(chars) : chars[k] = "[" /\ DepthAfter(chars, k - 1) = 0}

IsLoop(o) == o.op = "Loop"

\* every outermost bracket pair of chars is, in order, one Loop of ops whose
\* body is the parse of the characters strictly between the pair, and so on
\* inside that body
RECURSIVE LoopsAreBodies(_, _)
LoopsAreBodies(chars, ops) ==
    LET opens == SortedSeq(TopOpens(chars))
        loops == SelectSeq(ops, IsLoop)
    IN  /\ Len(loops) = Len(opens)
        /\ \A j \in 1..Len(opens) :
               LET k == opens[j]
                   inner == SubSeq(chars, k + 1, MatchOf(chars, k) - 1)
                   r == parse(inner)
               IN  /\ r.ok
                   /\ loops[j].body = r.ops
                   /\ LoopsAreBodies(inner, r.ops)

OpVariants == {"MoveRight", "MoveLeft", "Increment", "Decrement", "Output",
               "Input", "Loop", "Connect", "Listen", "Accept", "Receive", "Send"}

RECURSIVE OnlyVariants(_)
OnlyVariants(ops) ==
    \A k \in 1..Len(ops) :
        /\ ops[k].op \in OpVariants
        /\ ops[k].op # "Loop" => ops[k].body = <<>>
        /\ ops[k].op = "Loop" => OnlyVariants(ops[k].body)

RECURSIVE LoopDepth(_)
LoopDepth(ops) ==
    LET ds == {1 + LoopDepth(ops[k].body) : k \in {j \in 1..Len(ops) : ops[j].op = "Loop"}}
    IN  IF ds = {} THEN 0 ELSE CHOOSE d \in ds : \A e \in ds : e <= d

\* the deepest nesting of brackets: the most '[' open after any '[', 0
\* without one
BracketDepth(chars) ==
    LET ds == {0} \cup {DepthAfter(chars, k) : k \in {j \in 1..Len(chars) : chars[j] = "["}}
    IN  CHOOSE d \in ds : \A e \in ds : e <= d

\* C17: parse returns Ok exactly for the texts whose brackets are balanced;
\* the tree then holds only operations (no bracket), every bracket pair is
\* one Loop whose body is the parse, which succeeds, of the characters
\* strictly between the pair, and Loops nest as deep as the brackets do.
C17_LoopStructure ==
    Parsed =>
        /\ result.ok <=> Balanced(source)
        /\ result.ok =>
               /\ OnlyVariants(result.ops)
               /\ LoopsAreBodies(source, result.ops)
               /\ LoopDepth(result.ops) = BracketDepth(source)

\* [[]+] has been parsed to a Loop that holds an empty Loop and Increment(1)
C17_Witness ==
    /\ Parsed
    /\ source = <<"[", "[", "]", "+", "]">>
    /\ result = Ok(<<OpLoop(<<OpLoop(<<>>), OpN("Increment", 1)>>)>>)
    /\ LoopDepth(result.ops) = 2

\* ------------------------------------------------------------------ C20

\* the index the main scan of parse goes on from after the iteration at
\* index i (0-based), or Len(chars) + 1 when that iteration returns (an
\* error)
ScanNext(chars, i) ==
    LET c == chars[i + 1]
    IN  CASE c \in RunChars -> i + count_consecutive(chars, i, c)
          [] c = "[" -> LET l == parse_loop(chars, i)
                        IN  IF l.ok THEN l.pos + 1 ELSE Len(chars) + 1
          [] c = "]" -> Len(chars) + 1
          [] OTHER -> i + 1

\* the indices the main scan of parse is at, from index i on, as long as it
\* advances
RECURSIVE ScanIndices(_, _)
ScanIndices(chars, i) ==
    IF i >= Len(chars) THEN {}
    ELSE {i} \cup (IF ScanNext(chars, i) > i
                   THEN ScanIndices(chars, ScanNext(chars, i)) ELSE {})

\* C20: parse ends on every text, with operations or with an error. At every
\* index the scan of the text comes to (and at every index of a short text)
\* the iteration of the scan returns or goes on from a larger index, at most
\* the length of the text: a run count is at least 1 and stays within the
\* text, and a loop whose ']' is found at index e goes on from e + 1 after
\* parsing the text between the brackets, which is shorter than the text by
\* at least the two brackets.
C20_ParseTerminates ==
    /\ pc = "parse" =>
       \A i \in ScanIndices(source, 0)
                 \cup (IF Len(source) <= MaxParseLen + 1
                       THEN 0..(Len(source) - 1) ELSE {}) :
           /\ LET next == ScanNext(source, i)
              IN  /\ next > i
                  /\ next <= Len(source) + 1
                  /\ source[i + 1] \in RunChars =>
                         (next <= Len(source) /\ i + 1 <= next)
           /\ source[i + 1] = "[" =>
                  LET s == parse_loop_scan(source, i + 1, 1)
                  IN  /\ s.i > i
                      /\ s.i <= Len(source)
                      /\ s.depth = 0 =>
                             /\ s.i < Len(source)
                             /\ source[s.i + 1] = "]"
                             /\ Len(SubSeq(source, i + 2, s.i)) <= Len(source) - 2
                             /\ ScanNext(source, i) = s.i + 1
    /\ Parsed =>
           \/ result.ok /\ pc = "exec"
           \/ /\ ~result.ok
              /\ pc = "parse_error"
              /\ result.err \in {"UnmatchedOpenBracket", "UnmatchedCloseBracket"}

\* the scan of +[>]x has returned: it went from the run to the loop, from
\* the loop to the comment after its ']' and from the comment to the end
C20_Witness ==
    /\ Parsed
    /\ source = <<"+", "[", ">", "]", "x">>
    /\ result = Ok(<<OpN("Increment", 1), OpLoop(<<OpN("MoveRight", 1)>>)>>)
    /\ ScanNext(source, 0) = 1
    /\ ScanNext(source, 1) = 4
    /\ ScanNext(source, 4) = 5

\* ------------------------------------------------------------------ classic programs

ClassicAlphabet == {">", "<", "+", "-", ".", ",", "[", "]", "x"}

ClassicLoopTexts == {
    <<"+", "[", ">", "]">>,
    <<"+", "[", "+", "]">>,
    <<"+", ">", "+", "<", "[", ">", "-", "]">>,
    <<"+", "+", "[", ">", "+", "<", "-", "]", ">", ".">>,
    <<"+", "+", "[", ">", "+", "+", "[", ">", "+", "<", "-", "]", "<", "-", "]", ">", ">", ".">>,
    <<"+", "[", "[", "-", "]", "]">>,
    <<"+", "x", "+", "[", ">", "x", ">", "+", "<", "<", "-", "]", ">", ">", ".">> }

\* runs of '<' and '>' that take the pointer around the tape
ClassicWrapTexts == {
    <<"<", "+", ">", "+", ">", "-">>,
    Rep(">", TAPE_SIZE) \o <<"+", ".">>,
    Rep("<", TAPE_SIZE + 1),
    Rep("<", TAPE_SIZE + 1) \o <<">", "+">> }

ClassicScenarios ==
    {Run(s, i, <<>>) : s \in {x \in Texts(ClassicAlphabet, MaxClassicLen) : Balanced(x)},
                       i \in {<<>>, <<65>>}}
    \cup {Run(s, i, <<>>) : s \in {Echo, Cat}, i \in Texts(SampleBytes, MaxInput)}
    \cup {Run(s, <<>>, <<>>) : s \in {Hello} \cup ClassicLoopTexts \cup ClassicWrapTexts}

\* main on a bracket-balanced text of the eight classic characters and
\* comments
InitClassic ==
    /\ \E sc \in ClassicScenarios :
           source = sc.source /\ input = sc.input /\ peer_data = sc.peer_data
    /\ overflow_checks \in BOOLEAN
    /\ pc = "parse"
    /\ result = NoResult
    /\ stack = <<>>
    /\ Fresh

NextClassic ==
    \/ Parse
    \/ ExecMoveRight
    \/ ExecMoveLeft
    \/ ExecIncrement
    \/ ExecDecrement
    \/ ExecOutput
    \/ ExecInput
    \/ ExecLoop
    \/ ExecReturn
    \/ Finish

ClassicSpec == InitClassic /\ [][NextClassic]_vars

\* ------------------------------------------------------------------ C19

\* The reference interpreter: one character of the text at a time, the
\* pointer modulo TAPE_SIZE, the cells modulo 256, brackets by jumps to the
\* matching bracket. Its state: ip, the 0-based index of the next character;
\* ptr; tape; in, the input bytes consumed; out, the bytes written.
RefInit == [ip |-> 0, ptr |-> 0, tape |-> <<>>, in |-> 0, out |-> <<>>]

\* the position (1-based) of the '[' that the ']' at position m closes
MatchOpen(chars, m) ==
    CHOOSE k \in 1..(m - 1) : chars[k] = "[" /\ MatchOf(chars, k) = m

RefStep(chars, inp, s) ==
    LET c == chars[s.ip + 1]
        cell == Cell(s.tape, s.ptr)
        next == [s EXCEPT !.ip = @ + 1]
    IN  CASE c = ">" -> [next EXCEPT !.ptr = (s.ptr + 1) % TAPE_SIZE]
          [] c = "<" -> [next EXCEPT !.ptr = (s.ptr - 1) % TAPE_SIZE]
          [] c = "+" -> [next EXCEPT !.tape = SetCell(s.tape, s.ptr, (cell + 1) % 256)]
          [] c = "-" -> [next EXCEPT !.tape = SetCell(s.tape, s.ptr, (cell - 1) % 256)]
          [] c = "." -> [next EXCEPT !.out = Append(s.out, cell)]
          [] c = "," -> IF s.in < Len(inp)
                        THEN [next EXCEPT !.tape = SetCell(s.tape, s.ptr, inp[s.in + 1]),
                                          !.in = @ + 1]
                        ELSE [next EXCEPT !.tape = SetCell(s.tape, s.ptr, 0)]
          [] c = "[" -> IF cell = 0
                        THEN [s EXCEPT !.ip = MatchOf(chars, s.ip + 1)]
                        ELSE next
          [] c = "]" -> IF cell # 0
                        THEN [s EXCEPT !.ip = MatchOpen(chars, s.ip + 1)]
                        ELSE next
          [] OTHER -> next

\* the reference state after at most k steps from s (it stops at the end of
\* the text)
RECURSIVE RefRun(_, _, _, _)
RefRun(chars, inp, s, k) ==
    IF s.ip >= Len(chars) \/ k = 0 THEN s
    ELSE IF k = 1 THEN RefStep(chars, inp, s)
    ELSE RefRun(chars, inp, RefRun(chars, inp, s, k \div 2), k - (k \div 2))

\* C19: on a bracket-balanced classic text the VM does what the reference
\* interpreter does: it does not crash, and when execute has returned Ok the
\* reference has reached the end of the text with the same bytes written,
\* the same tape and the same pointer.
C19_ClassicEquivalence ==
    /\ pc # "panic"
    /\ pc = "done" =>
           LET r == RefRun(source, input, RefInit, RefFuel)
           IN  /\ r.ip >= Len(source)
               /\ r.out = output
               /\ r.tape = tape
               /\ r.ptr = pointer

====
